---- MODULE Spec2Model ----
(***************************************************************************)
(* The SSE server node of node-red-contrib-server-sent-events: the         *)
(* subscriber registry (node.subscribers), the per-connection disconnect   *)
(* callbacks attached to the transport request, and the handlers that      *)
(* admit, broadcast to, remove and drain subscribers.                      *)
(*                                                                         *)
(* The repository holds two implementations of the node.  impl = "current" *)
(* is src/unnamed/part_000, impl = "legacy" is                             *)
(* src/sse-server/sse-server.js.  Every handler runs to completion (node   *)
(* is single threaded), so every handler is one action.                    *)
(*                                                                         *)
(* A connection attempt is a work item msg with msg._msgid = c and         *)
(* msg.res = the response stream of connection c, for c in Conns.  A       *)
(* duplicate registration is the same work item delivered again.           *)
(*                                                                         *)
(* Every call on the transport (writeHead, write, flush, end) may throw.   *)
(* The calls of one frame are chosen to fail by a fail point: "none",      *)
(* "head" (writeHead), "write1" (the first write: nothing is written),     *)
(* "flush" (the three lines are written) and "end".  A throwing second or  *)
(* third write takes the path of the first with one or two lines written.  *)
(* A stream without a flush method behaves as one whose flush succeeds.    *)
(*                                                                         *)
(* RED is a parameter of module.exports, registerSubscriber and            *)
(* handleServerEvent only.  unregisterSubscriber(node, msg) is a           *)
(* module-level function: RED is not in its scope, so each RED.log.warn    *)
(* in it raises a ReferenceError.                                          *)
(***************************************************************************)
EXTENDS Integers, Sequences, FiniteSets, TLC

\* Number of client connections (work items carrying a response handle).
NConn == 2
\* Deliveries of connection work items to the node: every connection can
\* register, and a work item can be delivered again.
MaxDeliveries == NConn + 1

Conns == 1..NConn
\* The correlation id of a broadcast work item (distinct from every connection's).
BroadcastIds == {NConn + 1}
Impls == {"current", "legacy"}
WriteFails == {"write1", "flush"}
CloseFails == {"none"} \cup WriteFails \cup {"end"}
OpenFails == {"none", "head"} \cup WriteFails
\* A subscribers field that the notification does not carry.
NoField == -1

VARIABLES
    impl,            \* which of the two source files runs
    subscribers,     \* node.subscribers: sequence of [id, socket, closeHandler]
    created,         \* created[c]: closeHandler closures created for connection c
    listeners,       \* listeners[c]: closures attached to c's request 'close' event
    reqClosed,       \* reqClosed[c]: the transport has emitted 'close' for c
    endCalled,       \* endCalled[c]: end() has been called on c's stream
    status,          \* the last node.status() publication
    runtimeListener, \* the node's handler is attached to RED 'runtime-event'
    nodeClosed,      \* the instance has been closed by the runtime
    crashed,         \* an exception escaped a transport callback
    last             \* the last handler run: what it was and what it did

vars == <<impl, subscribers, created, listeners, reqClosed, endCalled, status,
          runtimeListener, nodeClosed, crashed, last>>

-----------------------------------------------------------------------------
(* The handlers are operators on a record s of the node's state plus the   *)
(* trace of calls the running handler has made and its exception flag.     *)

Cur == [subscribers |-> subscribers, created |-> created, listeners |-> listeners,
        endCalled |-> endCalled, status |-> status, trace |-> <<>>, exc |-> FALSE]

Ev(k, c, ev, data, id, n) ==
    [k |-> k, c |-> c, ev |-> ev, data |-> data, id |-> id, n |-> n]

Log(s, e) == [s EXCEPT !.trace = Append(@, e)]

Ids(subs) == {subs[i].id : i \in 1..Len(subs)}

\* Array.prototype.findIndex(sub => sub.id === id); 0 stands for -1.
findIndex(subs, id) ==
    IF \E i \in 1..Len(subs) : subs[i].id = id
    THEN CHOOSE i \in 1..Len(subs) :
            /\ subs[i].id = id
            /\ \A j \in 1..(i - 1) : subs[j].id # id
    ELSE 0

\* Array.prototype.splice(idx, 1)
splice(subs, idx) ==
    SubSeq(subs, 1, idx - 1) \o SubSeq(subs, idx + 1, Len(subs))

LinesWritten(fp) ==
    IF fp = "write1" THEN 0 ELSE 3

\* write('event: ..'); write('data: ..'); write('id: ..'); if (flush) flush()
\* The frame is logged with the number of lines that were written; a call
\* that throws is logged too and leaves the exception in flight.
writeFrame(s, c, ev, data, id, fp) ==
    LET w == Log(s, Ev("frame", c, ev, data, id, LinesWritten(fp)))
    IN IF fp \in WriteFails
       THEN [Log(w, Ev("throw", c, fp, "", 0, 0)) EXCEPT !.exc = TRUE]
       ELSE w

\* _res.end(): the call is made, then it may throw.
end(s, c, fp) ==
    [Log(s, Ev("end", c, "", "", 0, 0))
        EXCEPT !.endCalled[c] = TRUE, !.exc = (fp = "end")]

\* catch (e) { RED.log.warn(..) } where RED is in scope
caught(s) == [s EXCEPT !.exc = FALSE]

\* req.on('close', closeHandler)
addListener(s, c, h) ==
    [Log(s, Ev("on", c, "", "", h, 0)) EXCEPT !.listeners[c] = @ \cup {h}]

\* req.removeListener('close', closeHandler): a no-op when h is not attached
removeListener(s, c, h) ==
    [Log(s, Ev("off", c, "", "", h, 0)) EXCEPT !.listeners[c] = @ \ {h}]

\* node.send({_msgid: id, payload: {event, subscribers: n, ip}})
send(s, id, event, n) == Log(s, Ev("send", id, event, "", id, n))

updateNodeStatus(s, type) ==
    LET st == [fill |-> IF type = "success" THEN "green" ELSE "red",
               n |-> Len(s.subscribers)]
    IN [Log(s, Ev("status", 0, st.fill, "", 0, st.n)) EXCEPT !.status = st]

-----------------------------------------------------------------------------
(* Registration: src/unnamed/part_000 33-109, sse-server.js 33-71.         *)

\* writeHead and the open frame; any of the calls may throw (no try here).
writeOpen(s, id, fp) ==
    LET h == Log(s, Ev("head", id, "", "", 0, 0))
    IN IF fp = "head"
       THEN [Log(h, Ev("throw", id, fp, "", 0, 0)) EXCEPT !.exc = TRUE]
       ELSE writeFrame(h, id, "open", "payload", id, fp)

\* A push without the check for an entry with the same id.
admitAlways(subs, entry) == Append(subs, entry)

\* if (!node.subscribers.some(sub => sub.id === id)) node.subscribers.push(entry)
admit(subs, entry) ==
    IF \E i \in 1..Len(subs) : subs[i].id = entry.id
    THEN subs
    ELSE Append(subs, entry)

\* A registration that attaches the disconnect callback before it writes.
registerSubscriberListenFirst(s, id, fp) ==
    LET h == s.created[id] + 1
        c == addListener([s EXCEPT !.created[id] = h], id, h)
        w == writeOpen(c, id, fp)
        a == [w EXCEPT !.subscribers =
                 admit(@, [id |-> id, socket |-> id, closeHandler |-> h])]
        u == updateNodeStatus(a, "success")
    IN IF w.exc THEN w ELSE send(u, id, "connect", Len(u.subscribers))

registerSubscriber(s, id, fp) ==
    LET w == writeOpen(s, id, fp)
        h == w.created[id] + 1
        c == addListener([w EXCEPT !.created[id] = h], id, h)
        a == [c EXCEPT !.subscribers =
                 admit(@, [id |-> id, socket |-> id, closeHandler |-> h])]
        u == updateNodeStatus(a, "success")
    IN IF w.exc THEN w ELSE send(u, id, "connect", Len(u.subscribers))

\* The legacy entry stores no closeHandler (0), and the connect notification
\* is sent before the admission and carries no subscribers field.
registerSubscriberLegacy(s, id, fp) ==
    LET w == writeOpen(s, id, fp)
        n == send(w, id, "connect", NoField)
        h == n.created[id] + 1
        c == addListener([n EXCEPT !.created[id] = h], id, h)
        a == [c EXCEPT !.subscribers =
                 admit(@, [id |-> id, socket |-> id, closeHandler |-> 0])]
    IN IF w.exc THEN w ELSE updateNodeStatus(a, "success")

-----------------------------------------------------------------------------
(* Server-initiated removal: part_000 119-165, sse-server.js 81-107.       *)
(* msg is the work item of connection id: msg._msgid = id, msg.res = its   *)
(* stream.  A catch block of this function raises a ReferenceError (RED is *)
(* not in scope), so a failing call leaves the exception in flight.        *)

unregisterSubscriber(s, id, fp) ==
    LET idx == findIndex(s.subscribers, id)
        sub == s.subscribers[idx]
        w == writeFrame(s, id, "close", "server", id, fp)
        o == IF sub.closeHandler # 0
             THEN removeListener(w, sub.socket, sub.closeHandler)
             ELSE w
        r == [o EXCEPT !.subscribers = splice(@, idx)]
        e == end(r, id, fp)
    IN IF idx = 0 THEN [s EXCEPT !.exc = TRUE]      \* RED.log.warn: ReferenceError
       ELSE IF w.exc THEN w                          \* catch: ReferenceError
       ELSE IF e.exc THEN e                          \* catch: ReferenceError
       ELSE send(e, id, "disconnect", Len(e.subscribers))

unregisterSubscriberLegacy(s, id, fp) ==
    LET w == writeFrame(s, id, "close", "server", id, fp)
        n == send(w, id, "disconnect", NoField)
        r == [n EXCEPT !.subscribers = SelectSeq(@, LAMBDA sub : sub.id # id)]
    IN IF w.exc THEN w                               \* catch: ReferenceError
       ELSE end(r, id, fp)                           \* catch: ReferenceError

-----------------------------------------------------------------------------
(* The disconnect callback: part_000 56-88, sse-server.js 55-60.           *)

closeHandler(s, id, h, fp) ==
    LET idx == findIndex(s.subscribers, id)
        sub == s.subscribers[idx]
        w == writeFrame(s, sub.socket, "close", "client", id, fp)
        e == IF w.exc THEN caught(w) ELSE caught(end(w, sub.socket, fp))
        r == [e EXCEPT !.subscribers = splice(@, idx)]
        n == send(r, id, "disconnect", Len(r.subscribers))
        b == IF idx # 0 THEN n ELSE s
    IN removeListener(updateNodeStatus(b, "success"), id, h)

closeHandlerLegacy(s, id, h, fp) ==
    LET u == unregisterSubscriberLegacy(s, id, fp)
    IN IF u.exc THEN u
       ELSE removeListener(updateNodeStatus(u, "success"), id, h)

\* The listeners attached to c's request, in the order they were attached.
RECURSIVE Attached(_, _)
Attached(hs, k) ==
    IF k > MaxDeliveries THEN <<>>
    ELSE (IF k \in hs THEN <<k>> ELSE <<>>) \o Attached(hs, k + 1)

\* req.emit('close'): runs the listeners attached when the event fires, in
\* order; a listener that throws ends the emit.
RECURSIVE emitClose(_, _, _, _, _)
emitClose(s, im, c, hs, fps) ==
    IF hs = <<>> \/ s.exc THEN s
    ELSE LET h == Head(hs)
             r == IF im = "current" THEN closeHandler(s, c, h, fps[h])
                  ELSE closeHandlerLegacy(s, c, h, fps[h])
         IN emitClose(r, im, c, Tail(hs), fps)

-----------------------------------------------------------------------------
(* Broadcast: part_000 173-205, sse-server.js 115-141.  out[c] holds the   *)
(* fail point of the frame written to stream c and whether the end() of an *)
(* evicted stream throws.                                                   *)

BroadcastOutcomes ==
    [fp : {"none"} \cup WriteFails, endfp : {"none"}]
        \cup [fp : WriteFails, endfp : {"end"}]

\* A filter callback whose catch block returns true: nobody is evicted.
RECURSIVE filterKeepAll(_, _, _, _, _)
filterKeepAll(s, i, kept, mid, out) ==
    IF i > Len(s.subscribers) THEN [s EXCEPT !.subscribers = kept]
    ELSE LET sub == s.subscribers[i]
             w == writeFrame(s, sub.socket, "event", "data", mid, out[sub.socket].fp)
             e == caught(end(caught(w), sub.socket, out[sub.socket].endfp))
         IN filterKeepAll(IF w.exc THEN e ELSE w, i + 1, Append(kept, sub), mid, out)

\* A pass that ends at the first failing subscriber: the later ones are kept
\* without being written to.
RECURSIVE filterStopAtFailure(_, _, _, _, _)
filterStopAtFailure(s, i, kept, mid, out) ==
    IF i > Len(s.subscribers) THEN [s EXCEPT !.subscribers = kept]
    ELSE LET sub == s.subscribers[i]
             w == writeFrame(s, sub.socket, "event", "data", mid, out[sub.socket].fp)
             e == caught(end(caught(w), sub.socket, out[sub.socket].endfp))
         IN IF w.exc
            THEN [e EXCEPT !.subscribers =
                     kept \o SubSeq(s.subscribers, i + 1, Len(s.subscribers))]
            ELSE filterStopAtFailure(w, i + 1, Append(kept, sub), mid, out)

\* A filter callback that sends a disconnect notification for an evicted
\* subscriber.
RECURSIVE filterNotify(_, _, _, _, _)
filterNotify(s, i, kept, mid, out) ==
    IF i > Len(s.subscribers) THEN [s EXCEPT !.subscribers = kept]
    ELSE LET sub == s.subscribers[i]
             w == writeFrame(s, sub.socket, "event", "data", mid, out[sub.socket].fp)
             e == caught(end(caught(w), sub.socket, out[sub.socket].endfp))
         IN IF w.exc
            THEN filterNotify(send(e, sub.id, "disconnect", Len(kept)),
                              i + 1, kept, mid, out)
            ELSE filterNotify(w, i + 1, Append(kept, sub), mid, out)

\* The callback of node.subscribers.filter(..), applied from index i on;
\* kept holds the subscribers for which it returned true.
RECURSIVE filterFrom(_, _, _, _, _)
filterFrom(s, i, kept, mid, out) ==
    IF i > Len(s.subscribers) THEN [s EXCEPT !.subscribers = kept]
    ELSE LET sub == s.subscribers[i]
             w == writeFrame(s, sub.socket, "event", "data", mid, out[sub.socket].fp)
             e == caught(end(caught(w), sub.socket, out[sub.socket].endfp))
         IN IF w.exc
            THEN filterFrom(e, i + 1, kept, mid, out)
            ELSE filterFrom(w, i + 1, Append(kept, sub), mid, out)

handleServerEvent(s, mid, out) == filterFrom(s, 1, <<>>, mid, out)

-----------------------------------------------------------------------------
(* Global drain: part_000 238-265 (instance close), 268-290 (redeploy),    *)
(* sse-server.js 175-192 (redeploy; the legacy node has no close handler). *)

\* The forEach callback of the current drains, applied from index i on: one
\* try block around removeListener, the close frame and end().
RECURSIVE drainFrom(_, _, _, _)
drainFrom(s, i, data, fps) ==
    IF i > Len(s.subscribers) THEN s
    ELSE LET sub == s.subscribers[i]
             o == IF sub.closeHandler # 0
                  THEN removeListener(s, sub.socket, sub.closeHandler)
                  ELSE s
             w == writeFrame(o, sub.socket, "close", data, 0, fps[sub.socket])
             e == IF w.exc THEN caught(w)
                  ELSE caught(end(w, sub.socket, fps[sub.socket]))
         IN drainFrom(e, i + 1, data, fps)

runtimeHandler(s, fps) ==
    [drainFrom(updateNodeStatus(s, "success"), 1, "collection", fps)
        EXCEPT !.subscribers = <<>>]

onClose(s, fps) ==
    Log([drainFrom(s, 1, "node", fps) EXCEPT !.subscribers = <<>>],
        Ev("done", 0, "", "", 0, 0))

\* The legacy forEach callback: the writes and the flush are outside the
\* try, so a failing one ends the forEach and the handler.
RECURSIVE drainFromLegacy(_, _, _)
drainFromLegacy(s, i, fps) ==
    IF i > Len(s.subscribers) THEN s
    ELSE LET sub == s.subscribers[i]
             w == writeFrame(s, sub.socket, "close", "collection", 0, fps[sub.socket])
             e == caught(end(w, sub.socket, fps[sub.socket]))
         IN IF w.exc THEN w ELSE drainFromLegacy(e, i + 1, fps)

runtimeHandlerLegacy(s, fps) ==
    LET d == drainFromLegacy(updateNodeStatus(s, "success"), 1, fps)
    IN IF d.exc THEN d ELSE [d EXCEPT !.subscribers = <<>>]

-----------------------------------------------------------------------------
(* The input handler: part_000 223-236, sse-server.js 159-172.  r is the   *)
(* state registerSubscriber or handleServerEvent left.                     *)

\* An input handler without the catch block.
onInputNoCatch(r) == Log(r, Ev("done", 0, "", "", 0, 0))

onInput(r) ==
    LET c == IF r.exc THEN updateNodeStatus(caught(r), "error") ELSE r
    IN Log(c, Ev("done", 0, "", "", 0, 0))

-----------------------------------------------------------------------------
(* The state machine.                                                      *)

NoStatus == [fill |-> "none", n |-> 0]

\* No handler is running or has just run: the runtime waits for the next event.
Idle == [op |-> "idle", id |-> 0, pre |-> <<>>, trace |-> <<>>, threw |-> FALSE]

Init ==
    /\ impl \in Impls
    /\ subscribers = <<>>
    /\ created = [c \in Conns |-> 0]
    /\ listeners = [c \in Conns |-> {}]
    /\ reqClosed = [c \in Conns |-> FALSE]
    /\ endCalled = [c \in Conns |-> FALSE]
    /\ status = NoStatus
    /\ runtimeListener = TRUE
    /\ nodeClosed = FALSE
    /\ crashed = FALSE
    /\ last = Idle

\* The handler op(id) has run and left r.
Commit(r, op, id) ==
    /\ subscribers' = r.subscribers
    /\ created' = r.created
    /\ listeners' = r.listeners
    /\ endCalled' = r.endCalled
    /\ status' = r.status
    /\ last' = [op |-> op, id |-> id, pre |-> subscribers, trace |-> r.trace,
                threw |-> r.exc]

\* The registrations so far that attached a disconnect callback.
RECURSIVE Sum(_, _)
Sum(f, S) == IF S = {} THEN 0 ELSE LET x == CHOOSE y \in S : TRUE
                                  IN f[x] + Sum(f, S \ {x})
Deliveries == Sum(created, Conns)

Waiting == last = Idle /\ ~crashed
Running == Waiting /\ ~nodeClosed

\* An input work item with msg.res: the work item of connection c.
Register(c, fp) ==
    /\ Running
    /\ Deliveries < MaxDeliveries
    /\ Commit(onInput(IF impl = "current" THEN registerSubscriber(Cur, c, fp)
                      ELSE registerSubscriberLegacy(Cur, c, fp)),
              "register", c)
    /\ UNCHANGED <<impl, reqClosed, runtimeListener, nodeClosed, crashed>>

\* An input work item without msg.res.
Broadcast(mid, out) ==
    /\ Running
    /\ Commit(onInput(handleServerEvent(Cur, mid, out)), "broadcast", mid)
    /\ UNCHANGED <<impl, reqClosed, runtimeListener, nodeClosed, crashed>>

\* The transport emits 'close' on the request of connection c, once.  An
\* exception that escapes a listener is an uncaught exception of the process.
ClientDisconnect(c, fps) ==
    /\ Waiting
    /\ ~reqClosed[c]
    /\ LET r == emitClose(Cur, impl, c, Attached(listeners[c], 1), fps)
       IN /\ Commit(r, "disconnect", c)
          /\ crashed' = r.exc
    /\ reqClosed' = [reqClosed EXCEPT ![c] = TRUE]
    /\ UNCHANGED <<impl, runtimeListener, nodeClosed>>

\* unregisterSubscriber(node, msg) called with the work item of connection c.
ServerRemoval(c, fp) ==
    /\ Running
    /\ created[c] > 0
    /\ Commit(IF impl = "current" THEN unregisterSubscriber(Cur, c, fp)
              ELSE unregisterSubscriberLegacy(Cur, c, fp),
              "remove", c)
    /\ UNCHANGED <<impl, reqClosed, runtimeListener, nodeClosed, crashed>>

\* RED.events emits 'runtime-event' (a redeploy).
RuntimeEvent(fps) ==
    /\ Waiting
    /\ runtimeListener
    /\ Commit(IF impl = "current" THEN runtimeHandler(Cur, fps)
              ELSE runtimeHandlerLegacy(Cur, fps),
              "runtime", 0)
    /\ UNCHANGED <<impl, reqClosed, runtimeListener, nodeClosed, crashed>>

\* The runtime closes the instance: the current node's 'close' handler runs
\* and detaches the runtime-event handler; the legacy node registers none.
NodeClose(fps) ==
    /\ Running
    /\ Commit(IF impl = "current" THEN onClose(Cur, fps) ELSE Cur, "close", 0)
    /\ runtimeListener' = (impl = "legacy")
    /\ nodeClosed' = TRUE
    /\ UNCHANGED <<impl, reqClosed, crashed>>

\* The handler has returned; what it did is no longer looked at.
Return ==
    /\ last # Idle
    /\ last' = Idle
    /\ UNCHANGED <<impl, subscribers, created, listeners, reqClosed, endCalled,
                   status, runtimeListener, nodeClosed, crashed>>

Next ==
    \/ \E c \in Conns, fp \in OpenFails : Register(c, fp)
    \/ \E mid \in BroadcastIds, out \in [Ids(subscribers) -> BroadcastOutcomes] :
          Broadcast(mid, out)
    \/ \E c \in Conns : \E j \in listeners[c] \cup {0}, fp \in CloseFails :
          ClientDisconnect(c, [h \in listeners[c] |-> IF h = j THEN fp ELSE "none"])
    \/ \E c \in Conns, fp \in CloseFails : ServerRemoval(c, fp)
    \/ \E fps \in [Ids(subscribers) -> CloseFails] : RuntimeEvent(fps)
    \/ \E fps \in [Ids(subscribers) -> CloseFails] : NodeClose(fps)
    \/ Return

Spec == Init /\ [][Next]_vars

-----------------------------------------------------------------------------
(* What the last handler did, read from its trace.                         *)

Events(k) == SelectSeq(last.trace, LAMBDA e : e.k = k)
EventsOn(k, c) == SelectSeq(last.trace, LAMBDA e : e.k = k /\ e.c = c)
\* The streams on which a write or a flush threw during the last handler.
FailedStreams == {c \in Conns : EventsOn("throw", c) # <<>>}
Frames == Events("frame")
UniqueIds ==
    \A i, j \in 1..Len(subscribers) : subscribers[i].id = subscribers[j].id => i = j

-----------------------------------------------------------------------------
\* C1: no two entries of node.subscribers share an id; a registration whose
\* id is already present (or whose open frame fails) leaves the registry's
\* contents and order unchanged, and a registration of a new id appends
\* exactly one entry with that id, so that after admissions only the size
\* is the number of distinct ids admitted.
C1_IdUniqueness ==
    /\ UniqueIds
    /\ last.op = "register" =>
          IF last.id \in Ids(last.pre) \/ FailedStreams # {}
          THEN subscribers = last.pre
          ELSE /\ Len(subscribers) = Len(last.pre) + 1
               /\ SubSeq(subscribers, 1, Len(last.pre)) = last.pre
               /\ subscribers[Len(subscribers)].id = last.id

\* A successful registration of an id that is already one of two entries.
C1_Witness ==
    /\ last.op = "register"
    /\ last.id \in Ids(last.pre)
    /\ FailedStreams = {}
    /\ Len(subscribers) = 2

\* C2: after a broadcast pass over N subscribers of which the set F threw on
\* write or flush, the registry holds exactly the N - |F| subscribers that
\* did not throw, in their original relative order, and none of F.
C2_BroadcastReconciliation ==
    last.op = "broadcast" =>
        /\ subscribers =
              SelectSeq(last.pre, LAMBDA sub : sub.socket \notin FailedStreams)
        /\ Len(subscribers) = Len(last.pre) - Cardinality(FailedStreams)
        /\ Ids(subscribers) \cap FailedStreams = {}

\* A pass over two subscribers in which the first one fails and is evicted.
C2_Witness ==
    /\ last.op = "broadcast"
    /\ Len(last.pre) = 2
    /\ FailedStreams = {last.pre[1].socket}
    /\ subscribers = <<last.pre[2]>>

\* The handlers that close connections: the client-disconnect callback, the
\* server removal, the redeploy drain and the instance close handler.
Closing == {"disconnect", "remove", "runtime", "close"}
\* A drain handler has run (the legacy node registers no close handler).
Drained == last.op = "runtime" \/ (last.op = "close" /\ impl = "current")

\* C3: at most one of the client-disconnect callback, a server removal and a
\* global drain calls end() on a subscriber's stream: a closing handler calls
\* end() on a stream at most once and leaves its entry out of the registry,
\* and for an id that is absent when the handler starts it writes nothing to
\* the stream, does not call end() on it and leaves the id absent.
C3_ExactlyOnceRemoval ==
    last.op \in Closing =>
        \A c \in Conns :
            /\ Len(EventsOn("end", c)) <= 1
            /\ EventsOn("end", c) # <<>> => c \notin Ids(subscribers)
            /\ c \notin Ids(last.pre) =>
                  /\ EventsOn("frame", c) = <<>>
                  /\ EventsOn("end", c) = <<>>
                  /\ c \notin Ids(subscribers)

\* C4: after the redeploy handler or the instance close handler has run, the
\* registry is empty and end() was called on every stream that was tracked
\* before, whatever writes or flushes failed.
C4_DrainCompleteness ==
    Drained =>
        /\ subscribers = <<>>
        /\ \A c \in Ids(last.pre) : EventsOn("end", c) # <<>>

\* C5: when a handler that changed the registry's membership has finished,
\* the count in the last published status equals the registry size.
C5_StatusConsistency ==
    (/\ last.op \in {"register", "disconnect", "remove", "broadcast", "runtime"}
     /\ Ids(subscribers) # Ids(last.pre))
        => status.n = Len(subscribers)

\* C6: a broadcast pass writes one event frame, carrying the work item's
\* correlation id, to every subscriber present at its start, in insertion
\* order; a frame is complete unless a write to that very stream threw, so a
\* failure on one subscriber keeps no frame from a later one; and without
\* failures the registry is unchanged.
C6_BroadcastDelivery ==
    last.op = "broadcast" =>
        /\ Len(Frames) = Len(last.pre)
        /\ \A i \in 1..Len(last.pre) :
              /\ Frames[i].c = last.pre[i].socket
              /\ Frames[i].ev = "event"
              /\ Frames[i].id = last.id
              /\ Frames[i].n = 3 \/ Frames[i].c \in FailedStreams
        /\ FailedStreams = {} => subscribers = last.pre

\* A pass in which the first subscriber's write throws and the second one
\* still gets its complete frame.
C6_Witness ==
    /\ last.op = "broadcast"
    /\ Len(last.pre) = 2
    /\ last.pre[1].socket \in FailedStreams
    /\ Len(Frames) = 2
    /\ Frames[2].c = last.pre[2].socket
    /\ Frames[2].n = 3

\* C7: a server removal of a registered id whose calls succeed leaves the id
\* out of the registry, writes the close frame "closed by the server" to the
\* stream, unregisters the entry's disconnect callback and ends the stream;
\* a client-disconnect event for an id that is no longer registered writes
\* nothing, ends nothing and sends no notification.
C7_ServerRemovalScenario ==
    /\ (last.op = "remove" /\ last.id \in Ids(last.pre) /\ ~last.threw) =>
          /\ last.id \notin Ids(subscribers)
          /\ \E i \in 1..Len(Frames) :
                Frames[i] = Ev("frame", last.id, "close", "server", last.id, 3)
          /\ EventsOn("off", last.id) # <<>>
          /\ EventsOn("end", last.id) # <<>>
    /\ (last.op = "disconnect" /\ last.id \notin Ids(last.pre)) =>
          /\ Frames = <<>>
          /\ Events("end") = <<>>
          /\ Events("send") = <<>>

C9_CloseErrorPolicy ==
    (/\ last.op \in {"disconnect", "remove"} \/ Drained
     /\ FailedStreams # {} \/ last.threw)
        => /\ ~last.threw
           /\ (last.op \in {"disconnect", "remove"} /\ last.id \in Ids(last.pre)) =>
                 /\ last.id \notin Ids(subscribers)
                 /\ last.pre[findIndex(last.pre, last.id)].closeHandler
                        \notin listeners[last.id]
           /\ Drained =>
                 /\ subscribers = <<>>
                 /\ \A c \in Ids(last.pre) : EventsOn("frame", c) # <<>>

\* C10: once a connection's entry has left the registry and the handler that
\* removed it has finished, no disconnect callback registered for that
\* connection is still attached to its request.
C10_CallbackDeregistration ==
    \A c \in Ids(last.pre) \ Ids(subscribers) : listeners[c] = {}

-----------------------------------------------------------------------------
\* C11: the instance's handler is attached to 'runtime-event' from its start
\* until its close handler runs and not after, so that no redeploy handler
\* (no status, no write, no registry change) runs for a closed instance.
C11_RuntimeSubscription ==
    /\ runtimeListener = ~nodeClosed
    /\ last.op = "runtime" => ~nodeClosed

\* C12: a successful registration sends exactly one connect notification,
\* after the callback is attached, the entry admitted and the status
\* published, and its subscribers field is the registry size, which counts
\* the entry of the registered id.
C12_ConnectNotification ==
    (last.op = "register" /\ FailedStreams = {}) =>
        LET t == last.trace
            sends == Events("send")
        IN /\ Len(sends) = 1
           /\ sends[1] = Ev("send", last.id, "connect", "", last.id, Len(subscribers))
           /\ last.id \in Ids(subscribers)
           /\ \E i \in 1..Len(t) :
                 /\ t[i].k = "send"
                 /\ \E j \in 1..(i - 1) : t[j].k = "status"
                 /\ \E j \in 1..(i - 1) : t[j].k = "on"

\* C13: a broadcast pass sends no notification downstream, with or without
\* evictions; notifications are sent only by a registration, a client
\* disconnect and a server removal.
C13_BroadcastSilent ==
    /\ last.op = "broadcast" => Events("send") = <<>>
    /\ Events("send") # <<>> => last.op \in {"register", "disconnect", "remove"}

\* A pass over two subscribers that evicts one of them.
C13_Witness ==
    /\ last.op = "broadcast"
    /\ Len(last.pre) = 2
    /\ Len(subscribers) = 1
    /\ FailedStreams # {}

C15_DisconnectAccounting ==
    last.op = "disconnect" =>
        LET sends == Events("send")
        IN /\ Len(sends) <= 1
           /\ last.id \in Ids(last.pre) \ Ids(subscribers) =>
                 sends = <<Ev("send", last.id, "disconnect", "", last.id,
                              Len(subscribers))>>
           /\ last.id \notin Ids(last.pre) => sends = <<>>

\* C17: a drain unregisters the disconnect callback of every entry before it
\* writes to or ends the entry's stream, leaves none of these callbacks
\* attached, and sends no notification.
C17_DrainUnregistersFirst ==
    Drained =>
        LET t == last.trace
        IN /\ \A c \in Ids(last.pre) :
                 \E i \in 1..Len(t) :
                    /\ t[i].k = "off" /\ t[i].c = c
                    /\ \A j \in 1..i : ~(t[j].c = c /\ t[j].k \in {"frame", "end"})
           /\ \A i \in 1..Len(last.pre) :
                 last.pre[i].closeHandler \notin listeners[last.pre[i].socket]
           /\ Events("send") = <<>>

\* C18: a successful registration of an id that is already registered leaves
\* the registry unchanged, publishes the status and sends a connect
\* notification whose subscribers field is the unchanged registry size.
C18_DuplicateRenotifies ==
    (last.op = "register" /\ last.id \in Ids(last.pre) /\ FailedStreams = {}) =>
        /\ subscribers = last.pre
        /\ Events("status") # <<>>
        /\ status = [fill |-> "green", n |-> Len(last.pre)]
        /\ Events("send") =
              <<Ev("send", last.id, "connect", "", last.id, Len(last.pre))>>

\* C19: no entry of the registry refers to a stream on which the node has
\* called end().
C19_NoEndedStreamTracked ==
    \A i \in 1..Len(subscribers) : ~endCalled[subscribers[i].socket]

\* C20: a client disconnect of a connection that registered and whose entry
\* is no longer in the registry (a broadcast pass evicted it) writes nothing
\* to the stream, does not call end() on it, sends no notification and
\* leaves the registry unchanged.
C20_EvictionThenDisconnect ==
    (/\ last.op = "disconnect"
     /\ created[last.id] > 0
     /\ endCalled[last.id]
     /\ last.id \notin Ids(last.pre))
        => /\ EventsOn("frame", last.id) = <<>>
           /\ EventsOn("end", last.id) = <<>>
           /\ Events("send") = <<>>
           /\ subscribers = last.pre

====
